---- MODULE Spec2Model ----
(***************************************************************************)
(* Model of the virtual2meet backend's space-authoring routes:             *)
(*   routes/v1/space.ts  (second half of src/src/backend/src/routes/v1/    *)
(*                        user.ts, lines 118-464): spaceRouter             *)
(*   routes/v1/user.ts   (lines 1-117): userRouter                         *)
(*   routes/v1/admin.ts  (src/unnamed/part_000): adminRouter               *)
(*                                                                         *)
(* The store is the set of tables the handlers read and write.  Every      *)
(* handler is an async function: it runs without interruption up to an     *)
(* `await` of a store call, so one action models one store call together   *)
(* with the synchronous code around it.  Handlers of different requests    *)
(* interleave at these points.                                             *)
(***************************************************************************)
EXTENDS Integers, Sequences, FiniteSets, Bags, TLC

(***************************************************************************)
(* Bounds of the model.                                                    *)
(***************************************************************************)
MaxMaps == 1
MaxSpaces == 1
MaxRows == 2
MaxIds == 2
MaxPending == 2

(***************************************************************************)
(* Finite input domains.                                                   *)
(***************************************************************************)
Procs == {"p1", "p2"}
Users == {"u1", "u2"}
Role == [u \in Users |-> IF u = "u2" THEN "Admin" ELSE "User"]
Elements == {"e1"}
InitialImageUrl == "img0"
ImageUrlInputs == {"img1", "img2", "img3"}
ElementIdInputs == {"e1", "e0"}
SpaceDimensionInputs == { <<"1", "x", "2">> }
MapDimensionInputs == { <<"2", "x", "1">> }
MapIds == 1 .. MaxMaps
SpaceIds == 1 .. MaxSpaces
RowIds == 1 .. MaxRows
NoMapId == 0
\* (x, y) of an AddSpaceElement request: left of and above any canvas; (1, 2)
\* is the corner of a 1x2 canvas and below a 2x1 canvas, (2, 1) the corner of
\* a 2x1 canvas and right of a 1x2 canvas
CoordInputs == { << 0 - 1, 0 >>, << 0, 0 - 1 >>, << 1, 2 >>, << 2, 1 >> }
\* defaultElements of a CreateMap request: placements inside and outside a
\* 2x1 canvas
MapElementInputs == { [elementId |-> "e1", x |-> 0, y |-> 0],
                      [elementId |-> "e1", x |-> 2, y |-> 2] }
DefaultElementsInputs ==
  { <<>> } \cup { <<a>> : a \in MapElementInputs }
           \cup { <<a, b>> : a \in MapElementInputs, b \in MapElementInputs }

(***************************************************************************)
(* Strings are sequences of one-character strings.                         *)
(***************************************************************************)
Digits == <<"0", "1", "2", "3", "4", "5", "6", "7", "8", "9">>
NaN == "NaN"

IsDigit(c) == \E i \in 1 .. Len(Digits) : Digits[i] = c

DigitVal(c) == (CHOOSE i \in 1 .. Len(Digits) : Digits[i] = c) - 1

RECURSIVE IndexOf(_, _, _)
IndexOf(s, c, i) ==
  IF i > Len(s) THEN 0
  ELSE IF s[i] = c THEN i
  ELSE IndexOf(s, c, i + 1)

\* String.prototype.split with a one-character separator:
\* "".split(",") is [""], "a,b".split(",") is ["a","b"].
RECURSIVE Split(_, _)
Split(s, sep) ==
  LET i == IndexOf(s, sep, 1)
  IN  IF i = 0 THEN << s >>
      ELSE << SubSeq(s, 1, i - 1) >> \o Split(SubSeq(s, i + 1, Len(s)), sep)

\* parseInt on a string: the value of the longest prefix of digits, NaN when
\* the string does not start with a digit.
RECURSIVE ParseDigits(_, _, _)
ParseDigits(s, i, acc) ==
  IF i > Len(s) \/ ~IsDigit(s[i]) THEN acc
  ELSE ParseDigits(s, i + 1, acc * 10 + DigitVal(s[i]))

ParseInt(s) ==
  IF Len(s) = 0 \/ ~IsDigit(s[1]) THEN NaN ELSE ParseDigits(s, 1, 0)

\* `${n}` for a non-negative integer.
RECURSIVE IntToString(_)
IntToString(n) ==
  IF n < 10 THEN << Digits[n + 1] >>
  ELSE IntToString(n \div 10) \o << Digits[(n % 10) + 1] >>

\* `${width}x${height}`
FormatDimensions(w, h) == IntToString(w) \o << "x" >> \o IntToString(h)

\* parseInt(dimensions.split("x")[0]) and parseInt(dimensions.split("x")[1])
DimWidth(dimensions) == ParseInt(Split(dimensions, "x")[1])
DimHeight(dimensions) == ParseInt(Split(dimensions, "x")[2])

(***************************************************************************)
(* State.                                                                  *)
(***************************************************************************)
VARIABLES
  maps,           \* Map table:   id -> [width, height, mapElements]
  spaces,         \* Space table: id -> [width, height, creatorId]
  spaceElements,  \* SpaceElements table: id -> [spaceId, elementId, x, y]
  nextSpaceId,    \* ids the store hands out are never handed out twice
  nextRowId,
  avatarOf,       \* User table: id -> avatarId, or NoAvatar
  req,            \* the request each handler slot is serving, and where it is
  last,           \* what the latest step sent to its client, if anything
  deleted,        \* SpaceElement ids for which "Element deleted" was sent
  elementImageUrl, \* Element table: id -> imageUrl
  pendingUpdates  \* element updates issued to the store and not yet completed

vars == << maps, spaces, spaceElements, nextSpaceId, nextRowId, avatarOf, req, last,
           deleted, elementImageUrl, pendingUpdates >>

spaceStore == << maps, spaces, spaceElements, nextSpaceId, nextRowId >>

elementStore == << elementImageUrl, pendingUpdates >>

EmptyTable == [i \in {} |-> i]
NoAvatar == "none"
Null == [null |-> TRUE]

Idle == [op |-> "idle"]
NoResponse == [op |-> "none"]

Init ==
  /\ maps = EmptyTable
  /\ spaces = EmptyTable
  /\ spaceElements = EmptyTable
  /\ nextSpaceId = 1
  /\ nextRowId = 1
  /\ avatarOf = [u \in Users |-> NoAvatar]
  /\ req = [p \in Procs |-> Idle]
  /\ last = NoResponse
  /\ deleted = {}
  /\ elementImageUrl = [e \in Elements |-> InitialImageUrl]
  /\ pendingUpdates = {}

(***************************************************************************)
(* Store operations (the Prisma client calls the handlers make).           *)
(***************************************************************************)
\* table without the rows whose ids are in `ids`
Without(table, ids) == [i \in (DOMAIN table) \ ids |-> table[i]]

\* table with the rows of `rows` (a function from new ids to rows) added
With(table, rows) == [i \in (DOMAIN table) \cup (DOMAIN rows) |->
                        IF i \in DOMAIN rows THEN rows[i] ELSE table[i]]

\* ids of the SpaceElements rows of a space
RowsOf(table, spaceId) == { i \in DOMAIN table : table[i].spaceId = spaceId }

\* SpaceElements.spaceId and SpaceElements.elementId are relations (the
\* handlers join through them: include: {space: true}, include: {element:
\* true}), so an insert naming a missing Space or Element is rejected.
ForeignKeysOk(spaceId, elementId) ==
  /\ spaceId \in DOMAIN spaces
  /\ elementId \in Elements

\* client.space.delete: the Space row goes, and the store removes the
\* SpaceElements rows that refer to it.
SpaceDeleteCascade(spaceId) == Without(spaceElements, RowsOf(spaceElements, spaceId))

(***************************************************************************)
(* Responses.  res.json(body) sends status 200, res.status(n).json(body)   *)
(* status n; `args` repeats the request the response answers.  A store     *)
(* call that rejects makes the handler's promise reject: nothing is sent.  *)
(***************************************************************************)
Json(op, actor, status, message, args) ==
  [ op |-> op, actor |-> actor, sent |-> TRUE, status |-> status, message |-> message,
    args |-> args ]

Thrown(op, actor, code, args) ==
  [ op |-> op, actor |-> actor, sent |-> FALSE, status |-> 0, message |-> code,
    args |-> args ]

\* the handler in slot p ends, having sent (or thrown) r
Finish(p, r) ==
  /\ last' = r
  /\ req' = [req EXCEPT ![p] = Idle]

\* app.use((err, req, res, next) => res.status(500).json({error: ...}))
ErrorMiddleware(r) == Json(r.op, r.actor, 500, "Internal Server Error", r.args)

\* the handler in slot p ends because an awaited store call rejected with r.
\* The handlers are async functions without try/catch: Express 4 does not
\* look at the promise a handler returns, so nothing is sent; Express 5
\* passes the rejection to the error middleware.  The version in use is not
\* fixed by the sources, so either may happen.
Rejected(p, r) == \E out \in {r, ErrorMiddleware(r)} : Finish(p, out)

\* the handler in slot p goes on to wait for its next store call
Await(p, r) ==
  /\ last' = NoResponse
  /\ req' = [req EXCEPT ![p] = r]

(***************************************************************************)
(* adminRouter.post("/map")                                                *)
(***************************************************************************)
\* adminRouter.use(adminMiddleware)
AdminOnly(actor) == Role[actor] = "Admin"

\* the Map row, with its MapElements, that client.map.create inserts
NewMap(dimensions, defaultElements) ==
  [ width |-> DimWidth(dimensions),
    height |-> DimHeight(dimensions),
    mapElements |-> [i \in 1 .. Len(defaultElements) |->
                       [ elementId |-> defaultElements[i].elementId,
                         x |-> defaultElements[i].x,
                         y |-> defaultElements[i].y ]] ]

CreateMap(actor, dimensions, defaultElements) ==
  /\ AdminOnly(actor)
  /\ Cardinality(DOMAIN maps) < MaxMaps
  /\ LET id == Cardinality(DOMAIN maps) + 1
     IN  /\ maps' = With(maps, [i \in {id} |-> NewMap(dimensions, defaultElements)])
         /\ last' = Json("CreateMap", actor, 200, "", [id |-> id])
  /\ UNCHANGED << elementStore, spaces, spaceElements, nextSpaceId, nextRowId, avatarOf, req, deleted >>

(***************************************************************************)
(* spaceRouter.post("/")                                                   *)
(***************************************************************************)
\* the Space row client.space.create inserts
NewSpace(width, height, creatorId) ==
  [width |-> width, height |-> height, creatorId |-> creatorId]

\* the rows createMany inserts for a map's placements, under fresh ids
CopiedRows(mapElements, spaceId, firstId) ==
  [i \in firstId .. (firstId + Len(mapElements) - 1) |->
     [ spaceId |-> spaceId,
       elementId |-> mapElements[i - firstId + 1].elementId,
       x |-> mapElements[i - firstId + 1].x,
       y |-> mapElements[i - firstId + 1].y ]]

\* a lookup that falls back to an empty map when the id names none
FindMapOrEmpty(mapId) ==
  IF mapId \in DOMAIN maps THEN maps[mapId]
  ELSE [width |-> 0, height |-> 0, mapElements |-> << >>]

\* client.map.findFirst({where: {id: mapId}, select: {mapElements, width, height}})
FindMap(mapId) == IF mapId \in DOMAIN maps THEN maps[mapId] ELSE Null

\* up to the first store call and through it: without a mapId the empty
\* Space is created and the request ends; with one the Map is looked up.
CreateSpace(p, actor, dimensions, mapId) ==
  /\ req[p] = Idle
  /\ IF mapId = NoMapId
     THEN /\ nextSpaceId <= MaxSpaces
          /\ spaces' = With(spaces, [i \in {nextSpaceId} |->
                              NewSpace(DimWidth(dimensions), DimHeight(dimensions), actor)])
          /\ nextSpaceId' = nextSpaceId + 1
          /\ Finish(p, Json("CreateSpace", actor, 200, "",
                            [mapId |-> mapId, spaceId |-> nextSpaceId]))
     ELSE /\ IF FindMap(mapId) = Null
             THEN Finish(p, Json("CreateSpace", actor, 400, "Map not found",
                                 [mapId |-> mapId]))
             ELSE Await(p, [ op |-> "CreateSpace", pc |-> "space.create", actor |-> actor,
                             mapId |-> mapId, map |-> FindMap(mapId) ])
          /\ UNCHANGED << spaces, nextSpaceId >>
  /\ UNCHANGED << elementStore, maps, spaceElements, nextRowId, avatarOf, deleted >>

\* client.space.create inside the $transaction callback.  The callback calls
\* the global client, not a transaction client, so the insert is committed
\* and visible as soon as it completes.
CreateSpaceCreate(p) ==
  /\ req[p].op = "CreateSpace" /\ req[p].pc = "space.create"
  /\ nextSpaceId <= MaxSpaces
  /\ spaces' = With(spaces, [i \in {nextSpaceId} |->
                      NewSpace(req[p].map.width, req[p].map.height, req[p].actor)])
  /\ nextSpaceId' = nextSpaceId + 1
  /\ Await(p, [ op |-> "CreateSpace", pc |-> "createMany", actor |-> req[p].actor,
                mapId |-> req[p].mapId, map |-> req[p].map, spaceId |-> nextSpaceId ])
  /\ UNCHANGED << elementStore, maps, spaceElements, nextRowId, avatarOf, deleted >>

\* client.spaceElements.createMany, then res.json({spaceId})
CreateSpaceCreateMany(p) ==
  /\ req[p].op = "CreateSpace" /\ req[p].pc = "createMany"
  /\ LET r == req[p]
         n == Len(r.map.mapElements)
         args == [mapId |-> r.mapId, spaceId |-> r.spaceId]
     IN  IF n > 0 /\ r.spaceId \notin DOMAIN spaces
         THEN /\ Rejected(p, Thrown("CreateSpace", r.actor, "P2003", args))
              /\ UNCHANGED << spaceElements, nextRowId >>
         ELSE /\ nextRowId + n - 1 <= MaxRows
              /\ spaceElements' = With(spaceElements,
                                       CopiedRows(r.map.mapElements, r.spaceId, nextRowId))
              /\ nextRowId' = nextRowId + n
              /\ Finish(p, Json("CreateSpace", r.actor, 200, "", args))
  /\ UNCHANGED << elementStore, maps, spaces, nextSpaceId, avatarOf, deleted >>

\* client.spaceElements.createMany rejects for a reason of the store's own
\* (connection lost, timeout).  The $transaction that wraps the callback
\* rolls back the statements issued on its transaction client; the callback
\* issued none on it, so the Space row that space.create committed stays.
CreateSpaceCreateManyFails(p) ==
  /\ req[p].op = "CreateSpace" /\ req[p].pc = "createMany"
  /\ Rejected(p, Thrown("CreateSpace", req[p].actor, "StoreFailure",
                        [mapId |-> req[p].mapId, spaceId |-> req[p].spaceId]))
  /\ UNCHANGED << elementStore, spaceStore, avatarOf, deleted >>

(***************************************************************************)
(* spaceRouter.delete("/element")                                          *)
(***************************************************************************)
\* findFirst({where: {id}, include: {space: true}}): the row joined with its
\* Space, or Null
FindSpaceElement(id) ==
  IF id \in DOMAIN spaceElements /\ spaceElements[id].spaceId \in DOMAIN spaces
  THEN [ id |-> id, space |-> spaces[spaceElements[id].spaceId] ]
  ELSE Null

\* !spaceElement?.space.creatorId || spaceElement.space.creatorId !== req.userId
ElementDeleteDenied(spaceElement, userId) ==
  \/ spaceElement = Null
  \/ spaceElement.space.creatorId # userId

DeleteSpaceElement(p, actor, id) ==
  /\ req[p] = Idle
  /\ IF ElementDeleteDenied(FindSpaceElement(id), actor)
     THEN Finish(p, Json("DeleteSpaceElement", actor, 403, "Unauthorized", [id |-> id]))
     ELSE Await(p, [ op |-> "DeleteSpaceElement", pc |-> "delete", actor |-> actor,
                     id |-> id ])
  /\ UNCHANGED << elementStore, spaceStore, avatarOf, deleted >>

\* client.spaceElements.delete({where: {id}}), then res.json
DeleteSpaceElementDelete(p) ==
  /\ req[p].op = "DeleteSpaceElement" /\ req[p].pc = "delete"
  /\ LET r == req[p]
     IN  IF r.id \notin DOMAIN spaceElements
         THEN /\ Rejected(p, Thrown("DeleteSpaceElement", r.actor, "P2025", [id |-> r.id]))
              /\ UNCHANGED << spaceElements, deleted >>
         ELSE /\ spaceElements' = Without(spaceElements, {r.id})
              /\ deleted' = deleted \cup {r.id}
              /\ Finish(p, Json("DeleteSpaceElement", r.actor, 200, "Element deleted",
                                [id |-> r.id]))
  /\ UNCHANGED << elementStore, maps, spaces, nextSpaceId, nextRowId, avatarOf >>

(***************************************************************************)
(* spaceRouter.delete("/:spaceId")                                         *)
(***************************************************************************)
\* findUnique({where: {id}, select: {creatorId}})
FindSpace(spaceId) == IF spaceId \in DOMAIN spaces THEN spaces[spaceId] ELSE Null

\* an ownership check that lets the Admin role through
SpaceDeleteDeniedUnlessAdmin(space, userId) ==
  space.creatorId # userId /\ Role[userId] # "Admin"

\* space.creatorId !== req.userId
SpaceDeleteDenied(space, userId) == space.creatorId # userId

DeleteSpace(p, actor, spaceId) ==
  /\ req[p] = Idle
  /\ LET space == FindSpace(spaceId)
     IN  IF space = Null
         THEN Finish(p, Json("DeleteSpace", actor, 400, "Space not found",
                             [spaceId |-> spaceId]))
         ELSE IF SpaceDeleteDenied(space, actor)
         THEN Finish(p, Json("DeleteSpace", actor, 403, "Unauthorized",
                             [spaceId |-> spaceId]))
         ELSE Await(p, [ op |-> "DeleteSpace", pc |-> "delete", actor |-> actor,
                         spaceId |-> spaceId ])
  /\ UNCHANGED << elementStore, spaceStore, avatarOf, deleted >>

\* client.space.delete({where: {id}}), then res.json
DeleteSpaceDelete(p) ==
  /\ req[p].op = "DeleteSpace" /\ req[p].pc = "delete"
  /\ LET r == req[p]
     IN  IF r.spaceId \notin DOMAIN spaces
         THEN /\ Rejected(p, Thrown("DeleteSpace", r.actor, "P2025", [spaceId |-> r.spaceId]))
              /\ UNCHANGED << spaces, spaceElements >>
         ELSE /\ spaces' = Without(spaces, {r.spaceId})
              /\ spaceElements' = SpaceDeleteCascade(r.spaceId)
              /\ Finish(p, Json("DeleteSpace", r.actor, 200, "Space deleted",
                                [spaceId |-> r.spaceId]))
  /\ UNCHANGED << elementStore, maps, nextSpaceId, nextRowId, avatarOf, deleted >>

(***************************************************************************)
(* spaceRouter.post("/element")                                            *)
(***************************************************************************)
\* findUnique({where: {id, creatorId}, select: {width, height}})
FindOwnedSpace(spaceId, userId) ==
  IF spaceId \in DOMAIN spaces /\ spaces[spaceId].creatorId = userId
  THEN [ width |-> spaces[spaceId].width, height |-> spaces[spaceId].height ]
  ELSE Null

\* x >= space.width: a boundary that excludes the last column
GreaterOrEqualWidth(x, space) == IF space = Null THEN FALSE ELSE x >= space.width

\* x > space?.width! and y > space?.height!: of a null space the right side
\* is undefined, and a comparison with undefined is false
GreaterThanWidth(x, space) == IF space = Null THEN FALSE ELSE x > space.width
GreaterThanHeight(y, space) == IF space = Null THEN FALSE ELSE y > space.height

\* the check without its x > width disjunct
OutsideBoundaryWidthUnchecked(space, x, y) ==
  \/ x < 0
  \/ y < 0
  \/ GreaterThanHeight(y, space)

\* x < 0 || y < 0 || x > space?.width! || y > space?.height!
OutsideBoundary(space, x, y) ==
  \/ x < 0
  \/ y < 0
  \/ GreaterThanWidth(x, space)
  \/ GreaterThanHeight(y, space)

AddSpaceElement(p, actor, spaceId, elementId, x, y) ==
  /\ req[p] = Idle
  /\ LET space == FindOwnedSpace(spaceId, actor)
         args == [spaceId |-> spaceId, x |-> x, y |-> y]
     IN  IF OutsideBoundary(space, x, y)
         THEN Finish(p, Json("AddSpaceElement", actor, 400,
                             "Point is outside of the boundary", args))
         ELSE IF space = Null
         THEN Finish(p, Json("AddSpaceElement", actor, 400, "Space not found", args))
         ELSE Await(p, [ op |-> "AddSpaceElement", pc |-> "create", actor |-> actor,
                         spaceId |-> spaceId, elementId |-> elementId,
                         x |-> x, y |-> y ])
  /\ UNCHANGED << elementStore, spaceStore, avatarOf, deleted >>

\* the row client.spaceElements.create inserts
NewSpaceElement(spaceId, elementId, x, y) ==
  [spaceId |-> spaceId, elementId |-> elementId, x |-> x, y |-> y]

\* client.spaceElements.create({data}), then res.json
AddSpaceElementCreate(p) ==
  /\ req[p].op = "AddSpaceElement" /\ req[p].pc = "create"
  /\ LET r == req[p]
         args == [spaceId |-> r.spaceId, x |-> r.x, y |-> r.y]
     IN  IF ~ForeignKeysOk(r.spaceId, r.elementId)
         THEN /\ Rejected(p, Thrown("AddSpaceElement", r.actor, "P2003", args))
              /\ UNCHANGED << spaceElements, nextRowId >>
         ELSE /\ nextRowId <= MaxRows
              /\ spaceElements' = With(spaceElements, [i \in {nextRowId} |->
                                    NewSpaceElement(r.spaceId, r.elementId, r.x, r.y)])
              /\ nextRowId' = nextRowId + 1
              /\ Finish(p, Json("AddSpaceElement", r.actor, 200, "Element added", args))
  /\ UNCHANGED << elementStore, maps, spaces, nextSpaceId, avatarOf, deleted >>

(***************************************************************************)
(* spaceRouter.get("/:spaceId")                                            *)
(***************************************************************************)
\* the body of a successful response: the Space's dimensions and its
\* SpaceElements rows, each joined with its Element
SpaceView(spaceId) ==
  [ dimensions |-> FormatDimensions(spaces[spaceId].width, spaces[spaceId].height),
    elements |-> { [ id |-> i,
                     element |-> [id |-> spaceElements[i].elementId],
                     x |-> spaceElements[i].x,
                     y |-> spaceElements[i].y ] : i \in RowsOf(spaceElements, spaceId) } ]

\* no userMiddleware on this route: anyone may read
GetSpace(spaceId) ==
  /\ last' = IF FindSpace(spaceId) = Null
             THEN Json("GetSpace", "anyone", 400, "Space not found", [spaceId |-> spaceId])
             ELSE Json("GetSpace", "anyone", 200, "",
                       [spaceId |-> spaceId, body |-> SpaceView(spaceId)])
  /\ UNCHANGED << elementStore, spaceStore, avatarOf, req, deleted >>

(***************************************************************************)
(* adminRouter.put("/element/:elementId")                                  *)
(***************************************************************************)
\* The handler is not async: it calls client.element.update without
\* awaiting the promise and answers at once.  The update is left with the
\* store client, which may run it later or (a promise nobody awaits) never.
UpdateElement(actor, elementId, imageUrl) ==
  /\ AdminOnly(actor)
  /\ Cardinality(pendingUpdates) < MaxPending
  /\ pendingUpdates' = pendingUpdates \cup {[elementId |-> elementId, imageUrl |-> imageUrl]}
  /\ last' = Json("UpdateElement", actor, 200, "Element updated",
                  [elementId |-> elementId, imageUrl |-> imageUrl])
  /\ UNCHANGED << elementImageUrl, spaceStore, avatarOf, req, deleted >>

\* the store runs a pending update({where: {id}, data: {imageUrl}}); for an
\* id that names no Element it rejects, and nobody handles the rejection
CompleteElementUpdate(u) ==
  /\ u \in pendingUpdates
  /\ pendingUpdates' = pendingUpdates \ {u}
  /\ elementImageUrl' = IF u.elementId \in DOMAIN elementImageUrl
                        THEN [elementImageUrl EXCEPT ![u.elementId] = u.imageUrl]
                        ELSE elementImageUrl
  /\ last' = NoResponse
  /\ UNCHANGED << spaceStore, avatarOf, req, deleted >>

(***************************************************************************)
(* userRouter.post("/metadata")                                            *)
(***************************************************************************)
\* Avatar table: id -> imageUrl
AvatarImageUrl == [a \in {"a1", "a2"} |-> IF a = "a1" THEN "img1" ELSE "img2"]
AvatarIdInputs == {"a1", "a2", "a0"}

\* client.user.update in a try block: an avatarId that names no Avatar makes
\* the update reject and the catch block answers
UpdateMetadata(actor, avatarId) ==
  /\ IF avatarId \in DOMAIN AvatarImageUrl
     THEN /\ avatarOf' = [avatarOf EXCEPT ![actor] = avatarId]
          /\ last' = Json("UpdateMetadata", actor, 200, "Metadata updated",
                          [avatarId |-> avatarId])
     ELSE /\ last' = Json("UpdateMetadata", actor, 400, "Internal server error",
                          [avatarId |-> avatarId])
          /\ UNCHANGED avatarOf
  /\ UNCHANGED << elementStore, spaceStore, req, deleted >>

(***************************************************************************)
(* userRouter.get("/metadata/bulk")                                        *)
(***************************************************************************)
\* the id of a user as the string a client sends
IdString == [u \in Users \cup {"u0"} |-> << "u", IF u = "u1" THEN "1"
                                             ELSE IF u = "u2" THEN "2" ELSE "0" >>]
IdInputs == Users \cup {"u0"}
Absent == << "undefined" >>

\* String.prototype.slice(start, end) with 0 <= start and end >= -1
Slice(s, start, end) ==
  SubSeq(s, start + 1, IF end < 0 THEN Len(s) + end ELSE IF end > Len(s) THEN Len(s) ELSE end)

\* (req.query.ids ?? "[]")
IdsOrDefault(ids) == IF ids = Absent THEN << "[", "]" >> ELSE ids

\* userIdString.slice(1, userIdString?.length - 1).split(",")
ParseUserIds(userIdString) ==
  Split(Slice(userIdString, 1, Len(userIdString) - 1), ",")

\* a lookup that joins the Avatar table and so loses users without avatar
MatchingUsersWithAvatar(userIds) ==
  { u \in Users : /\ \E i \in 1 .. Len(userIds) : userIds[i] = IdString[u]
                  /\ avatarOf[u] # NoAvatar }

\* findMany({where: {id: {in: userIds}}}): the users whose id is listed
MatchingUsers(userIds) ==
  { u \in Users : \E i \in 1 .. Len(userIds) : userIds[i] = IdString[u] }

\* m.avatar?.imageUrl: undefined for a user without avatar, and res.json
\* leaves an undefined property out of the entry
AvatarUrl(u) ==
  IF avatarOf[u] = NoAvatar THEN "undefined" ELSE AvatarImageUrl[avatarOf[u]]

\* metadata.map(m => ({userId: m.id, avatarId: m.avatar?.imageUrl}))
AvatarEntries(metadata) ==
  [i \in 1 .. Len(metadata) |-> [userId |-> metadata[i], avatarId |-> AvatarUrl(metadata[i])]]

\* the orders in which the store may return a set of rows: findMany without
\* orderBy promises none
RowOrders(S) ==
  { f \in [1 .. Cardinality(S) -> S] : \A i, j \in 1 .. Cardinality(S) : f[i] = f[j] => i = j }

GetBulkUserMetadata(ids) ==
  /\ \E metadata \in RowOrders(MatchingUsers(ParseUserIds(IdsOrDefault(ids)))) :
       last' = Json("GetBulkUserMetadata", "anyone", 200, "",
                    [ids |-> ids, avatars |-> AvatarEntries(metadata)])
  /\ UNCHANGED << elementStore, spaceStore, avatarOf, req, deleted >>

\* "[id1,...,idk]" and "id1,...,idk" for a sequence of users
RECURSIVE Joined(_)
Joined(l) ==
  IF Len(l) = 0 THEN << >>
  ELSE IF Len(l) = 1 THEN IdString[l[1]]
  ELSE IdString[l[1]] \o << "," >> \o Joined(Tail(l))

Bracketed(l) == << "[" >> \o Joined(l) \o << "]" >>

IdLists == UNION { [1 .. n -> IdInputs] : n \in 0 .. MaxIds }
RawIdsInputs == { Bracketed(l) : l \in IdLists } \cup { Joined(l) : l \in IdLists }
                  \cup { Absent }

(***************************************************************************)
(* The space-authoring service: any request may arrive at any time, and    *)
(* any handler that waits for the store may be resumed.                    *)
(***************************************************************************)
Next ==
  \/ \E a \in Users, d \in MapDimensionInputs, e \in DefaultElementsInputs :
       CreateMap(a, d, e)
  \/ \E p \in Procs, a \in Users, d \in SpaceDimensionInputs, m \in {NoMapId} \cup MapIds :
       CreateSpace(p, a, d, m)
  \/ \E p \in Procs : CreateSpaceCreate(p)
  \/ \E p \in Procs : CreateSpaceCreateMany(p)
  \/ \E p \in Procs, a \in Users, i \in RowIds : DeleteSpaceElement(p, a, i)
  \/ \E p \in Procs : DeleteSpaceElementDelete(p)
  \/ \E p \in Procs, a \in Users, s \in SpaceIds : DeleteSpace(p, a, s)
  \/ \E p \in Procs : DeleteSpaceDelete(p)
  \/ \E p \in Procs, a \in Users, s \in SpaceIds, e \in ElementIdInputs, c \in CoordInputs :
       AddSpaceElement(p, a, s, e, c[1], c[2])
  \/ \E p \in Procs : AddSpaceElementCreate(p)
  \/ \E s \in SpaceIds : GetSpace(s)

Spec == Init /\ [][Next]_vars

(***************************************************************************)
(* The user-metadata service.  Its handlers touch the User and Avatar      *)
(* tables only, and each makes one store call.                             *)
(***************************************************************************)
NextUser ==
  \/ \E a \in Users, v \in AvatarIdInputs : UpdateMetadata(a, v)
  \/ \E ids \in RawIdsInputs : GetBulkUserMetadata(ids)

SpecUser == Init /\ [][NextUser]_vars

(***************************************************************************)
(* Template instantiation with a store that may fail at the bulk insert.   *)
(***************************************************************************)
NextStoreFailure ==
  \/ \E a \in Users, d \in MapDimensionInputs, e \in DefaultElementsInputs :
       CreateMap(a, d, e)
  \/ \E p \in Procs, a \in Users, d \in SpaceDimensionInputs, m \in {NoMapId} \cup MapIds :
       CreateSpace(p, a, d, m)
  \/ \E p \in Procs : CreateSpaceCreate(p)
  \/ \E p \in Procs : CreateSpaceCreateMany(p)
  \/ \E p \in Procs : CreateSpaceCreateManyFails(p)
  \/ \E s \in SpaceIds : GetSpace(s)

SpecStoreFailure == Init /\ [][NextStoreFailure]_vars

(***************************************************************************)
(* The element catalogue's update route.                                   *)
(***************************************************************************)
NextAdmin ==
  \/ \E a \in Users, e \in ElementIdInputs, i \in ImageUrlInputs : UpdateElement(a, e, i)
  \/ \E u \in pendingUpdates : CompleteElementUpdate(u)

SpecAdmin == Init /\ [][NextAdmin]_vars


(***************************************************************************)
(* Vocabulary of the properties.                                           *)
(***************************************************************************)
\* 0 <= x <= width and 0 <= y <= height
InBounds(space, x, y) == 0 <= x /\ x <= space.width /\ 0 <= y /\ y <= space.height

\* (elementId, x, y) of a placement or of a SpaceElements row
Placement(e) == << e.elementId, e.x, e.y >>

PlacementInputs == { Placement(e) : e \in MapElementInputs }
                     \cup { << e, c[1], c[2] >> : e \in ElementIdInputs, c \in CoordInputs }

\* the rows of a space in `table` are, one for one, the placements of mapElements
SamePlacements(mapElements, table, spaceId) ==
  /\ Cardinality(RowsOf(table, spaceId)) = Len(mapElements)
  /\ \A t \in PlacementInputs :
       Cardinality({ i \in 1 .. Len(mapElements) : Placement(mapElements[i]) = t })
         = Cardinality({ i \in RowsOf(table, spaceId) : Placement(table[i]) = t })

\* slot p holds a request of kind op that waits at pc
Waiting(p, op, pc) == req[p].op = op /\ req[p].pc = pc

\* the step ends the request slot p was serving
Ends(p) == req[p] # Idle /\ req'[p] = Idle

NotFoundMessages == { "Space not found", "Element not found", "Not found" }

\* r is a sent client error that says the resource was not found
IsNotFound(r) == r.sent /\ r.status \in {400, 404} /\ r.message \in NotFoundMessages

(***************************************************************************)
(* C1.  Whenever a CreateSpace that names a Map finishes, the Space it     *)
(* created exists with the Map's width and height and has exactly the      *)
(* Map's N placements as its SpaceElements, one row per placement with the *)
(* same (elementId, x, y).                                                 *)
(***************************************************************************)
C1_SpaceIsCopyOfMap ==
  [][ \A p \in Procs :
        (Waiting(p, "CreateSpace", "createMany") /\ Ends(p)) =>
          LET r == req[p]
          IN  /\ last'.sent
              /\ r.spaceId \in DOMAIN spaces'
              /\ spaces'[r.spaceId].width = maps[r.mapId].width
              /\ spaces'[r.spaceId].height = maps[r.mapId].height
              /\ SamePlacements(maps[r.mapId].mapElements, spaceElements', r.spaceId)
    ]_vars

(***************************************************************************)
(* C2.  No GetSpace response shows a Space whose CreateSpace from a Map    *)
(* with N > 0 placements is still in flight with fewer than N elements.    *)
(***************************************************************************)
C2_NoPartialSpaceObserved ==
  \A p \in Procs :
    ( /\ Waiting(p, "CreateSpace", "createMany")
      /\ Len(req[p].map.mapElements) > 0
      /\ last.op = "GetSpace" /\ last.status = 200
      /\ last.args.spaceId = req[p].spaceId )
    => Cardinality(last.args.body.elements) >= Len(req[p].map.mapElements)

(***************************************************************************)
(* C3.  Every AddSpaceElement by the creator of an existing Space with     *)
(* x < 0, y < 0, x > width or y > height is answered with the out-of-      *)
(* bounds error, and the step leaves the SpaceElements table unchanged.    *)
(***************************************************************************)
C3_OutOfBoundsRejected ==
  [][ ( /\ last'.op = "AddSpaceElement"
        /\ last'.args.spaceId \in DOMAIN spaces
        /\ spaces[last'.args.spaceId].creatorId = last'.actor
        /\ ~InBounds(spaces[last'.args.spaceId], last'.args.x, last'.args.y) )
      => /\ last'.sent /\ last'.status = 400
         /\ last'.message = "Point is outside of the boundary"
         /\ spaceElements' = spaceElements
    ]_vars

\* the creator of an existing Space was told that x lies beyond its width
C3_Witness ==
  /\ last.op = "AddSpaceElement"
  /\ last.message = "Point is outside of the boundary"
  /\ last.args.spaceId \in DOMAIN spaces
  /\ spaces[last.args.spaceId].creatorId = last.actor
  /\ last.args.x > spaces[last.args.spaceId].width
  /\ last.args.y >= 0

(***************************************************************************)
(* C4 as stated.  Every AddSpaceElement by the creator of an existing      *)
(* Space with 0 <= x <= width and 0 <= y <= height is answered with        *)
(* "Element added".  (A request reaches its insert only after the lookup   *)
(* found the Space owned by the actor and the placement within bounds.)    *)
(***************************************************************************)
C4_OwnerAddInBoundsSucceeds ==
  [][ /\ \A p \in Procs :
           (Waiting(p, "AddSpaceElement", "create") /\ Ends(p)) =>
             (last'.sent /\ last'.status = 200 /\ last'.message = "Element added")
      /\ ( /\ last'.op = "AddSpaceElement"
           /\ last'.args.spaceId \in DOMAIN spaces
           /\ spaces[last'.args.spaceId].creatorId = last'.actor
           /\ InBounds(spaces[last'.args.spaceId], last'.args.x, last'.args.y) )
         => (last'.sent /\ last'.status = 200 /\ last'.message = "Element added")
    ]_vars

\* the step removes row i, or leaves it as it is
RowKeptOrDeleted(i) ==
  \/ i \in DOMAIN spaceElements' /\ spaceElements'[i] = spaceElements[i]
  \/ /\ i \notin DOMAIN spaceElements'
     /\ last'.sent /\ last'.status = 200
     /\ \/ last'.op = "DeleteSpaceElement" /\ last'.args.id = i
        \/ last'.op = "DeleteSpace" /\ last'.args.spaceId = spaceElements[i].spaceId

\* a successful GetSpace response lists every row the Space has
ViewListsEveryRow ==
  (last.op = "GetSpace" /\ last.status = 200) =>
    \A i \in RowsOf(spaceElements, last.args.spaceId) :
      \E e \in last.args.body.elements :
        /\ e.id = i
        /\ e.element.id = spaceElements[i].elementId
        /\ e.x = spaceElements[i].x
        /\ e.y = spaceElements[i].y

(***************************************************************************)
(* C4 as amended.  An AddSpaceElement by the creator of an existing Space  *)
(* with 0 <= x <= width and 0 <= y <= height (corner included) is never    *)
(* rejected by the checks.  Its insert answers "Element added" and adds a  *)
(* row with the request's spaceId, elementId, x and y when the elementId   *)
(* names an existing Element and the Space still exists at the insert;     *)
(* otherwise the store rejects the insert, no success is reported and no   *)
(* row is added.  A row stays as it is until a successful                  *)
(* DeleteSpaceElement of it or DeleteSpace of its Space, and every         *)
(* successful GetSpace lists every row of the Space with its elementId, x  *)
(* and y.                                                                  *)
(***************************************************************************)
C4_AddInBoundsPersistsAndIsListed ==
  /\ [][ /\ ( /\ last'.op = "AddSpaceElement"
              /\ last'.args.spaceId \in DOMAIN spaces
              /\ spaces[last'.args.spaceId].creatorId = last'.actor
              /\ InBounds(spaces[last'.args.spaceId], last'.args.x, last'.args.y) )
            => \E p \in Procs : Waiting(p, "AddSpaceElement", "create") /\ Ends(p)
         /\ \A p \in Procs :
              (Waiting(p, "AddSpaceElement", "create") /\ Ends(p)) =>
                LET r == req[p]
                IN  IF r.spaceId \in DOMAIN spaces /\ r.elementId \in Elements
                    THEN /\ last'.sent /\ last'.status = 200
                         /\ last'.message = "Element added"
                         /\ \E i \in (DOMAIN spaceElements') \ (DOMAIN spaceElements) :
                              spaceElements'[i] =
                                [ spaceId |-> r.spaceId, elementId |-> r.elementId,
                                  x |-> r.x, y |-> r.y ]
                    ELSE /\ ~(last'.sent /\ last'.status = 200)
                         /\ spaceElements' = spaceElements
         /\ \A i \in DOMAIN spaceElements : RowKeptOrDeleted(i)
       ]_vars
  /\ [] ViewListsEveryRow

\* "Element added" was sent for a placement on the corner (width, height),
\* and the row is in the table
C4_Witness ==
  /\ last.op = "AddSpaceElement" /\ last.message = "Element added"
  /\ last.args.spaceId \in DOMAIN spaces
  /\ last.args.x = spaces[last.args.spaceId].width
  /\ last.args.y = spaces[last.args.spaceId].height
  /\ \E i \in RowsOf(spaceElements, last.args.spaceId) :
       spaceElements[i].x = last.args.x /\ spaceElements[i].y = last.args.y

(***************************************************************************)
(* C5.  Every DeleteSpace by an actor other than the creator of an         *)
(* existing Space is answered 403 "Unauthorized" and leaves the Space and  *)
(* SpaceElements tables unchanged, whatever the actor's role; and a Space  *)
(* row disappears only in a successful DeleteSpace of its creator.         *)
(***************************************************************************)
C5_ForeignDeleteSpaceUnauthorized ==
  [][ /\ ( /\ last'.op = "DeleteSpace"
           /\ last'.args.spaceId \in DOMAIN spaces
           /\ spaces[last'.args.spaceId].creatorId # last'.actor )
         => /\ last'.sent /\ last'.status = 403 /\ last'.message = "Unauthorized"
            /\ spaces' = spaces
            /\ spaceElements' = spaceElements
      /\ \A s \in DOMAIN spaces :
           s \notin DOMAIN spaces' =>
             /\ last'.op = "DeleteSpace" /\ last'.args.spaceId = s
             /\ last'.actor = spaces[s].creatorId
      /\ \A p \in Procs :
           Waiting(p, "DeleteSpace", "delete")' =>
             /\ req'[p].spaceId \in DOMAIN spaces
                  => spaces[req'[p].spaceId].creatorId = req'[p].actor
    ]_vars

\* an Admin was refused the deletion of a Space that a User created, and the
\* Space is still there
C5_Witness ==
  /\ last.op = "DeleteSpace" /\ last.status = 403
  /\ Role[last.actor] = "Admin"
  /\ last.args.spaceId \in DOMAIN spaces
  /\ spaces[last.args.spaceId].creatorId # last.actor
  /\ RowsOf(spaceElements, last.args.spaceId) # {}

(***************************************************************************)
(* C6.  A DeleteSpaceElement of an id for which "Element deleted" was      *)
(* already sent is answered with a not-found error, and "Element deleted"  *)
(* is never sent twice for one id.                                         *)
(***************************************************************************)
C6_SecondDeleteIsNotFound ==
  [][ (last'.op = "DeleteSpaceElement" /\ last'.args.id \in deleted) =>
        /\ IsNotFound(last')
        /\ spaceElements' = spaceElements
    ]_vars

(***************************************************************************)
(* C7.  Every SpaceElements row lies within the canvas of its Space:       *)
(* 0 <= x <= width and 0 <= y <= height.                                   *)
(***************************************************************************)
C7_RowsWithinBounds ==
  \A i \in DOMAIN spaceElements :
    spaceElements[i].spaceId \in DOMAIN spaces =>
      InBounds(spaces[spaceElements[i].spaceId], spaceElements[i].x, spaceElements[i].y)

(***************************************************************************)
(* C8.  The rows of an existing Space change only in a successful          *)
(* AddSpaceElement, DeleteSpaceElement or DeleteSpace of the Space's       *)
(* creator, and the creatorId of a Space never changes.                    *)
(***************************************************************************)
C8_OnlyCreatorMutationsChangeRows ==
  [][ \A s \in DOMAIN spaces :
        /\ s \in DOMAIN spaces' => spaces'[s].creatorId = spaces[s].creatorId
        /\ (\E i \in RowsOf(spaceElements, s) \cup RowsOf(spaceElements', s) :
              \/ i \notin DOMAIN spaceElements
              \/ i \notin DOMAIN spaceElements'
              \/ spaceElements'[i] # spaceElements[i])
           => /\ last'.op \in {"AddSpaceElement", "DeleteSpaceElement", "DeleteSpace"}
              /\ last'.actor = spaces[s].creatorId
    ]_vars

(***************************************************************************)
(* C10.  A CreateSpace whose mapId names no Map is answered 400 "Map not   *)
(* found" and leaves the Space and SpaceElements tables unchanged; no      *)
(* request goes on to create a Space for a mapId that named no Map.        *)
(***************************************************************************)
C10_UnknownMapRejected ==
  [][ /\ ( /\ last'.op = "CreateSpace"
           /\ last'.args.mapId # NoMapId
           /\ last'.args.mapId \notin DOMAIN maps )
         => /\ last'.sent /\ last'.status = 400 /\ last'.message = "Map not found"
            /\ spaces' = spaces
            /\ spaceElements' = spaceElements
      /\ \A p \in Procs :
           (req'[p].op = "CreateSpace" /\ req[p] = Idle) => req'[p].mapId \in DOMAIN maps
    ]_vars

\* "Map not found" was sent although Spaces exist and the Map table is empty
C10_Witness ==
  /\ last.op = "CreateSpace" /\ last.status = 400 /\ last.message = "Map not found"
  /\ last.args.mapId \notin DOMAIN maps
  /\ DOMAIN spaces # {}

(***************************************************************************)
(* Vocabulary of the properties of the user-metadata service.              *)
(***************************************************************************)
\* the lists of existing users a well-formed raw input "[id1,...,idk]" names
UserLists == UNION { [1 .. n -> Users] : n \in 1 .. MaxIds }

\* l without the later occurrences of a user
RECURSIVE FirstOccurrences(_)
FirstOccurrences(l) ==
  IF Len(l) = 0 THEN << >>
  ELSE LET front == FirstOccurrences(SubSeq(l, 1, Len(l) - 1))
           x == l[Len(l)]
       IN  IF \E i \in 1 .. Len(front) : front[i] = x THEN front ELSE Append(front, x)

\* the entry expected for user u: its avatar's image, none without avatar
ExpectedEntry(u) ==
  [ userId |-> u,
    avatarId |-> IF avatarOf[u] = NoAvatar THEN "undefined"
                 ELSE IF avatarOf[u] = "a1" THEN "img1" ELSE "img2" ]

C11_FailedInstantiationRolledBack ==
  [][ \A p \in Procs :
        ( /\ Waiting(p, "CreateSpace", "createMany") /\ Ends(p)
          /\ ~(last'.sent /\ last'.status = 200) )
        => /\ req[p].spaceId \notin DOMAIN spaces'
           /\ RowsOf(spaceElements', req[p].spaceId) = {}
    ]_vars

(***************************************************************************)
(* C12.  Whenever an AddSpaceElement reaches its insert, or a              *)
(* DeleteSpaceElement its delete, after a DeleteSpace removed the Space    *)
(* (and with it the row) since the request's lookup, the request is        *)
(* answered with a not-found error and the SpaceElements table stays as    *)
(* it is; and no SpaceElements row ever refers to a Space that is gone.    *)
(***************************************************************************)
C12_MutateAfterDeleteIsNotFound ==
  /\ [][ \A p \in Procs :
           /\ ( /\ Waiting(p, "AddSpaceElement", "create") /\ Ends(p)
                /\ req[p].spaceId \notin DOMAIN spaces )
              => (IsNotFound(last') /\ spaceElements' = spaceElements)
           /\ ( /\ Waiting(p, "DeleteSpaceElement", "delete") /\ Ends(p)
                /\ req[p].id \notin DOMAIN spaceElements
                /\ req[p].id \notin deleted )
              => (IsNotFound(last') /\ spaceElements' = spaceElements)
       ]_vars
  /\ [] (\A i \in DOMAIN spaceElements : spaceElements[i].spaceId \in DOMAIN spaces)

(***************************************************************************)
(* C13.  Every AddSpaceElement that names a Space which does not exist or  *)
(* is not the actor's is answered "Space not found", whatever x and y      *)
(* are; the out-of-bounds answer is given only when the actor's Space was  *)
(* found and (x, y) lies outside its canvas.                               *)
(***************************************************************************)
C13_MissingSpaceIsSpaceNotFound ==
  [][ (last'.op = "AddSpaceElement" /\ req' = req) =>
        LET space == FindOwnedSpace(last'.args.spaceId, last'.actor)
        IN  /\ space = Null =>
                 (last'.sent /\ last'.status = 400 /\ last'.message = "Space not found")
            /\ last'.message = "Point is outside of the boundary" =>
                 (space # Null /\ ~InBounds(space, last'.args.x, last'.args.y))
    ]_vars

(***************************************************************************)
(* C14.  A DeleteSpace of a Space that does not exist and a                *)
(* DeleteSpaceElement of a row that does not exist are answered with a     *)
(* not-found error, which is not the 403 "Unauthorized" that a request of  *)
(* another actor than the creator gets for a resource that exists.         *)
(***************************************************************************)
C14_MissingTargetIsNotFound ==
  [][ /\ (last'.op = "DeleteSpace" /\ req' = req) =>
           IF last'.args.spaceId \notin DOMAIN spaces
           THEN IsNotFound(last') /\ last'.message # "Unauthorized"
           ELSE last'.status = 403 /\ last'.message = "Unauthorized"
      /\ (last'.op = "DeleteSpaceElement" /\ req' = req) =>
           IF last'.args.id \notin DOMAIN spaceElements
           THEN IsNotFound(last') /\ last'.message # "Unauthorized"
           ELSE last'.status = 403 /\ last'.message = "Unauthorized"
    ]_vars

(***************************************************************************)
(* C15.  In every state in which "Element updated" has just been sent for  *)
(* an existing Element, the imageUrl stored for that Element is the one    *)
(* the request asked for.                                                  *)
(***************************************************************************)
C15_AcknowledgedUpdateIsStored ==
  ( /\ last.op = "UpdateElement" /\ last.message = "Element updated"
    /\ last.args.elementId \in DOMAIN elementImageUrl )
  => elementImageUrl[last.args.elementId] = last.args.imageUrl

(***************************************************************************)
(* C16.  Every Space or SpaceElement request that ends has been sent a     *)
(* response: an acknowledgement or an error with status and message.       *)
(***************************************************************************)
C16_EveryRequestAnswered ==
  last.op \in { "CreateSpace", "AddSpaceElement", "DeleteSpaceElement", "DeleteSpace",
                "GetSpace" }
  => last.sent

====
